---- MODULE Spec2Model ----
(***************************************************************************)
(* Model of nativeui/menu_base.cc (MenuBase: an ordered list of menu items *)
(* mirrored on a platform peer) and nativeui/win/tab_win.cc (TabItem,      *)
(* TabImpl and the Tab platform methods: tab items, the selected item and  *)
(* the visibility of the pages).                                           *)
(***************************************************************************)
EXTENDS Integers, Sequences, FiniteSets, TLC

\* ------------------------------------------------------------------------
\* Bounds
\* ------------------------------------------------------------------------
NumMenus == 2
NumMenuItems == 3
MaxPages == 3
MaxTitleLen == 2
NumFonts == 2

Menus == 1..NumMenus
MenuItems == 1..NumMenuItems
\* nullptr for MenuItem*, MenuBase*, TabItem*
NullItem == 0
NullMenu == 0
\* the indexes callers pass: one below and one above every valid index
MenuIndexes == (0 - 1)..(NumMenuItems + 1)

\* the addresses a TabItem can be allocated at, and the views of the
\* application that can be pages
TabItems == 1..(MaxPages + 1)
Views == 1..MaxPages
NullView == 0
TabIndexes == (0 - 1)..MaxPages

\* a title is taken by its length in characters, the empty title of a new
\* TabItem is 0; the title of the pages when the title plays no part
Titles == 1..MaxTitleLen
EmptyTitle == 0
PlainTitle == 1
\* the fonts; a view starts with the default font
Fonts == 1..NumFonts
DefaultFont == 1
\* scale_factor() in quarters: 1.0, 1.25 and 2.0
ScaleFactors == {4, 5, 8}
DefaultScale == 4
\* tab_win.cc:22-23
kHPadding == 2
kVPadding == 1

VARIABLES
  items_,         \* MenuBase::items_, per menu: sequence of MenuItem*
  menu_,          \* MenuItem::menu_, per item: the owning menu or NullMenu
  peer,           \* per menu: the native entries of the platform peer
  platformCalls,  \* the Platform* calls of the last operation, each with
                  \* the logical state the peer could observe during it
  lastOp,         \* the last call made by the application or the platform
  tab_items_,     \* TabImpl::items_: sequence of TabItem* (addresses)
  selected_,      \* TabItem::selected_, per live tab item
  state_,         \* ViewImpl::state_ of each live tab item
  selected_item_, \* TabImpl::selected_item_: a TabItem* or NullItem
  selected_item_index_,  \* TabImpl::selected_item_index_
  pages_,         \* the pages of the Tab widget, one view per tab item
  visible,        \* per view: is it visible
  emitted,        \* the on_selected_page_change emissions of the last
                  \* operation, each with what an observer reads during it
  returned,       \* what the last operation returned
  crashed,        \* the process has died on a null pointer or freed object
  title_,         \* TabItem::title_, per live tab item
  size_,          \* TabItem::size_, per live tab item
  font_,          \* ViewImpl font of each live tab item
  tab_font_,      \* ViewImpl font of the TabImpl
  scale_factor_,  \* scale_factor() of the TabImpl and its items, in quarters
  index_before    \* what GetSelectedPageIndex() returned when the last
                  \* operation on the tab began

menuVars == <<items_, menu_, peer, platformCalls>>

tabVars == <<tab_items_, selected_, state_, selected_item_,
             selected_item_index_, pages_, visible, emitted, returned,
             crashed, title_, size_, font_, tab_font_, scale_factor_,
             index_before>>

vars == <<items_, menu_, peer, platformCalls, lastOp, tab_items_, selected_,
          state_, selected_item_, selected_item_index_, pages_, visible,
          emitted, returned, crashed, title_, size_, font_, tab_font_,
          scale_factor_, index_before>>

\* ------------------------------------------------------------------------
\* Sequence helpers (std::vector::insert, std::vector::erase, std::find)
\* ------------------------------------------------------------------------
\* vector::insert(begin() + index, x), 0 <= index <= size()
InsertAt(s, index, x) ==
  SubSeq(s, 1, index) \o <<x>> \o SubSeq(s, index + 1, Len(s))

\* vector::erase(begin() + index), 0 <= index < size()
EraseAt(s, index) ==
  SubSeq(s, 1, index) \o SubSeq(s, index + 2, Len(s))

\* std::find: 0-based position of the first x in s, Len(s) for end()
Find(s, x) ==
  IF \E k \in 1..Len(s) : s[k] = x
    THEN (CHOOSE k \in 1..Len(s) : s[k] = x /\ \A j \in 1..(k - 1) : s[j] # x) - 1
    ELSE Len(s)

Range(s) == {s[k] : k \in 1..Len(s)}

\* ------------------------------------------------------------------------
\* MenuBase
\* ------------------------------------------------------------------------
item_count(m) == Len(items_[m])

\* The recording peer: PlatformInsert(item, index) puts the native entry at
\* index, PlatformRemove(item) takes the entry of item away.
PlatformInsert(p, item, index) ==
  IF index >= 0 /\ index <= Len(p) THEN InsertAt(p, index, item) ELSE p

PlatformRemove(p, item) ==
  IF Find(p, item) < Len(p) THEN EraseAt(p, Find(p, item)) ELSE p

\* what a Platform* call is made with, and what the peer sees if it looks
\* back at the container while the call runs
Call(fn, m, item, index, its, mn) ==
  [fn |-> fn, menu |-> m, item |-> item, index |-> index,
   seenItems |-> its[m], seenMenu |-> mn[item]]

\* a call: the operation, the menu it is made on (NullMenu for the tab), its
\* item, view or index argument and, for a mouse click, the type of the event
\* and whether ViewImpl::OnMouseClick has handled it
Op(op, m, item, index, type, base) ==
  [op |-> op, menu |-> m, item |-> item, index |-> index, type |-> type,
   base |-> base]

\* InsertRejected as it would be if Insert refused only the items of this
\* menu
InsertRejectedOwnMenuOnly(m, item, index) ==
  \/ item = NullItem
  \/ menu_[item] = m
  \/ index < 0
  \/ index > item_count(m)

\* menu_base.cc:26, the conditions under which Insert returns at once
InsertRejected(m, item, index) ==
  \/ item = NullItem
  \/ menu_[item] # NullMenu
  \/ index < 0
  \/ index > item_count(m)

\* InsertBody as it would be if PlatformInsert were called before the
\* sequence and the backlink are updated
InsertBodyPeerFirst(m, item, index) ==
  LET its == [items_ EXCEPT ![m] = InsertAt(@, index, item)]
      mn == [menu_ EXCEPT ![item] = m]
  IN /\ items_' = its
     /\ menu_' = mn
     /\ peer' = [peer EXCEPT ![m] = PlatformInsert(@, item, index)]
     /\ platformCalls' = <<Call("PlatformInsert", m, item, index, items_, menu_)>>

\* InsertBody as it would be if the item were pushed at the back of items_
InsertBodyWrongSlot(m, item, index) ==
  LET its == [items_ EXCEPT ![m] = Append(@, item)]
      mn == [menu_ EXCEPT ![item] = m]
  IN /\ items_' = its
     /\ menu_' = mn
     /\ peer' = [peer EXCEPT ![m] = PlatformInsert(@, item, index)]
     /\ platformCalls' = <<Call("PlatformInsert", m, item, index, its, mn)>>

\* menu_base.cc:28-30, the three statements of a successful Insert
InsertBody(m, item, index) ==
  LET its == [items_ EXCEPT ![m] = InsertAt(@, index, item)]
      mn == [menu_ EXCEPT ![item] = m]
  IN /\ items_' = its
     /\ menu_' = mn
     /\ peer' = [peer EXCEPT ![m] = PlatformInsert(@, item, index)]
     /\ platformCalls' = <<Call("PlatformInsert", m, item, index, its, mn)>>

\* menu_base.cc:25-31
DoInsert(m, item, index) ==
  IF InsertRejected(m, item, index)
    THEN /\ platformCalls' = <<>>
         /\ UNCHANGED <<items_, menu_, peer>>
    ELSE InsertBody(m, item, index)

\* menu_base.cc:21-23
MenuAppend(m, item) ==
  /\ lastOp' = Op("Append", m, item, item_count(m), "none", FALSE)
  /\ DoInsert(m, item, item_count(m))
  /\ UNCHANGED tabVars

MenuInsert(m, item, index) ==
  /\ lastOp' = Op("Insert", m, item, index, "none", FALSE)
  /\ DoInsert(m, item, index)
  /\ UNCHANGED tabVars

\* RemoveAbsent as it would be if Remove looked at the backlink of the item
\* instead of searching items_
RemoveAbsentByOwner(m, item) ==
  item = NullItem \/ menu_[item] = NullMenu

\* menu_base.cc:34-35, Remove returns at once when std::find reaches end()
RemoveAbsent(m, item) ==
  Find(items_[m], item) = Len(items_[m])

\* RemoveBody as it would be without set_menu(nullptr)
RemoveBodyKeepsBacklink(m, item) ==
  LET i == Find(items_[m], item)
  IN /\ platformCalls' = <<Call("PlatformRemove", m, item, i, items_, menu_)>>
     /\ peer' = [peer EXCEPT ![m] = PlatformRemove(@, item)]
     /\ menu_' = menu_
     /\ items_' = [items_ EXCEPT ![m] = EraseAt(@, i)]

\* RemoveBody as it would be if PlatformRemove were called after the
\* backlink is cleared and the item erased
RemoveBodyEraseFirst(m, item) ==
  LET i == Find(items_[m], item)
      mn == [menu_ EXCEPT ![item] = NullMenu]
      its == [items_ EXCEPT ![m] = EraseAt(@, i)]
  IN /\ platformCalls' = <<Call("PlatformRemove", m, item, i, its, mn)>>
     /\ peer' = [peer EXCEPT ![m] = PlatformRemove(@, item)]
     /\ menu_' = mn
     /\ items_' = its

\* menu_base.cc:37-39, the three statements of a successful Remove
RemoveBody(m, item) ==
  LET i == Find(items_[m], item)
  IN /\ platformCalls' = <<Call("PlatformRemove", m, item, i, items_, menu_)>>
     /\ peer' = [peer EXCEPT ![m] = PlatformRemove(@, item)]
     /\ menu_' = [menu_ EXCEPT ![item] = NullMenu]
     /\ items_' = [items_ EXCEPT ![m] = EraseAt(@, i)]

\* menu_base.cc:33-40
MenuRemove(m, item) ==
  /\ lastOp' = Op("Remove", m, item, 0, "none", FALSE)
  /\ IF RemoveAbsent(m, item)
       THEN /\ platformCalls' = <<>>
            /\ UNCHANGED <<items_, menu_, peer>>
       ELSE RemoveBody(m, item)
  /\ UNCHANGED tabVars

MenuNext ==
  \/ \E m \in Menus, item \in MenuItems \cup {NullItem} : MenuAppend(m, item)
  \/ \E m \in Menus, item \in MenuItems \cup {NullItem}, index \in MenuIndexes :
       MenuInsert(m, item, index)
  \/ \E m \in Menus, item \in MenuItems \cup {NullItem} : MenuRemove(m, item)

MenuInit ==
  /\ items_ = [m \in Menus |-> <<>>]
  /\ menu_ = [i \in MenuItems |-> NullMenu]
  /\ peer = [m \in Menus |-> <<>>]
  /\ platformCalls = <<>>

\* ------------------------------------------------------------------------
\* TabItem, TabImpl and Tab (tab_win.cc)
\* ------------------------------------------------------------------------
\* The statements of one handler run one after the other on a record st
\* of the tab fields; crashed stops everything that follows.  st.uaf is what
\* a write through a pointer to a destroyed TabItem does in this run.

\* gfx::Size, and the Size of a TabItem that has measured nothing yet
Size(w, h) == [width |-> w, height |-> h]

EmptySize == Size(0, 0)

TabState(uaf) ==
  [items |-> tab_items_, selected |-> selected_, state |-> state_,
   selItem |-> selected_item_, selIdx |-> selected_item_index_,
   pages |-> pages_, visible |-> visible, emitted |-> <<>>,
   crashed |-> crashed, uaf |-> uaf,
   title |-> title_, size |-> size_, font |-> font_, scale |-> scale_factor_]

\* Addresses and views are names: two states that differ by a renaming of
\* them are one state.  Canon names the live items 1, 2, ... in the order of
\* items_, a destroyed item that selected_item_ still points to by the next
\* address, and the pages 1, 2, ... in their order; a view that has left the
\* tab is not followed any further.
Canon(st) ==
  LET n == Len(st.items)
      np == Len(st.pages)
      name(a) == IF a \in Range(st.items) THEN Find(st.items, a) + 1 ELSE n + 1
  IN [st EXCEPT
        !.items = [k \in 1..n |-> k],
        !.selected = [a \in TabItems |->
                        IF a <= n THEN st.selected[st.items[a]] ELSE FALSE],
        !.state = [a \in TabItems |->
                     IF a <= n THEN st.state[st.items[a]] ELSE "Normal"],
        !.title = [a \in TabItems |->
                     IF a <= n THEN st.title[st.items[a]] ELSE EmptyTitle],
        !.size = [a \in TabItems |->
                    IF a <= n THEN st.size[st.items[a]] ELSE EmptySize],
        !.font = [a \in TabItems |->
                    IF a <= n THEN st.font[st.items[a]] ELSE DefaultFont],
        !.selItem = IF st.selItem = NullItem THEN NullItem ELSE name(st.selItem),
        !.emitted = [k \in 1..Len(st.emitted) |->
                       [st.emitted[k] EXCEPT !.item = name(@)]],
        !.pages = [k \in 1..np |-> k],
        !.visible = [v \in Views |->
                       IF v <= np THEN st.visible[st.pages[v]] ELSE TRUE]]

\* the fields after the handler, evaluated once
Commit(st) ==
  \E done \in {st} : \E c \in {Canon(done)} :
     /\ tab_items_' = c.items
     /\ selected_' = c.selected
     /\ state_' = c.state
     /\ selected_item_' = c.selItem
     /\ selected_item_index_' = c.selIdx
     /\ pages_' = c.pages
     /\ visible' = c.visible
     /\ emitted' = c.emitted
     /\ crashed' = c.crashed
     /\ title_' = c.title
     /\ size_' = c.size
     /\ font_' = c.font
     /\ scale_factor_' = c.scale
     /\ tab_font_' = tab_font_

\* The text measurement service, in tenths of a pixel: the extent of a title
\* of the given length in the given font.
MeasureText(title, font) ==
  [width10 |-> title * (55 + 10 * font), height10 |-> 100 + 25 * font]

\* ToCeiledSize of a SizeF given in tenths
ToCeiledSize(ext) == Size((ext.width10 + 9) \div 10, (ext.height10 + 9) \div 10)

\* Size::Enlarge(int, int)
Enlarge(sz, dw, dh) == Size(sz.width + dw, sz.height + dh)

\* tab_win.cc:32-34, the size of an item from a title, a font and a scale
\* factor; the float products are converted to the int arguments of Enlarge
MeasuredSize(title, font, scale) ==
  Enlarge(ToCeiledSize(MeasureText(title, font)),
          (2 * kHPadding * scale) \div 4, (2 * kVPadding * scale) \div 4)

\* tab_win.cc:30-36, TabItem::SetTitle on a live item
SetTitle(st, it, title) ==
  [st EXCEPT !.title[it] = title,
             !.size[it] = MeasuredSize(title, st.font[it], st.scale)]

\* variant: the flag changes and the visual state is left alone
SetSelectedFlagOnly(st, it, selected) ==
  IF st.crashed THEN st
  ELSE IF it \in Range(st.items)
    THEN [st EXCEPT !.selected[it] = selected]
  ELSE IF st.uaf = "crash" THEN [st EXCEPT !.crashed = TRUE]
  ELSE st

\* tab_win.cc:38-41, TabItem::SetSelected on the item at address it; the
\* address of a destroyed item is freed memory
SetSelected(st, it, selected) ==
  IF st.crashed THEN st
  ELSE IF it \in Range(st.items)
    THEN [st EXCEPT !.selected[it] = selected,
                    !.state[it] = IF selected THEN "Pressed" ELSE "Normal"]
  ELSE IF st.uaf = "crash" THEN [st EXCEPT !.crashed = TRUE]
  ELSE st

\* Tab::PageCount and Tab::PageAt as tab_win.cc uses them: PageAt gives the
\* view of a tab index and nullptr outside the pages (tab_win.cc:160-161
\* tests its result with index -1)
PageCount(st) == Len(st.pages)

PageAt(st, index) ==
  IF index >= 0 /\ index < Len(st.pages) THEN st.pages[index + 1] ELSE NullView

\* View::SetVisible through a View*; through nullptr (PageAt of an index
\* that has no page) the call reads the fields of a null object and the
\* process dies
SetVisible(st, view, v) ==
  IF st.crashed THEN st
  ELSE IF view = NullView THEN [st EXCEPT !.crashed = TRUE]
  ELSE [st EXCEPT !.visible[view] = v]

\* tab_win.cc:156, on_selected_page_change.Emit(tab): an observer can call
\* GetSelectedPageIndex() during the emission
Emit(st) ==
  IF st.crashed THEN st
  ELSE [st EXCEPT !.emitted = Append(@, [index |-> st.selIdx, item |-> st.selItem])]

\* tab_win.cc:141-157
SetSelectedItem(st, item) ==
  LET s1 == IF st.selItem # NullItem
              THEN SetVisible(SetSelected(st, st.selItem, FALSE),
                              PageAt(st, st.selIdx), FALSE)
              ELSE st
      s2 == IF s1.crashed THEN s1
            ELSE [s1 EXCEPT !.selItem = item, !.selIdx = Find(s1.items, item)]
      s3 == SetSelected(s2, s2.selItem, TRUE)
      s4 == SetVisible(s3, PageAt(s3, s3.selIdx), TRUE)
  IN Emit(s4)

\* tab_win.cc:104-112; new TabItem gives the address addr, which no live
\* item has
AddPage(st, addr, title) ==
  LET s0 == [st EXCEPT !.selected[addr] = FALSE,
                       !.state[addr] = "Normal",
                       !.title[addr] = EmptyTitle,
                       !.size[addr] = EmptySize,
                       !.font[addr] = DefaultFont]
      s1 == [SetTitle(s0, addr, title) EXCEPT !.items = Append(@, addr)]
  IN IF Len(s1.items) = 1 THEN SetSelectedItem(s1, s1.items[1]) ELSE s1

\* SelectNext as it would be without SetSelected(true) on the next item
SelectNextNoFlag(st, index) ==
  IF Len(st.items) = 1
    THEN [st EXCEPT !.selIdx = 0 - 1, !.selItem = NullItem]
    ELSE LET n == (index + 1) % Len(st.items)
         IN [st EXCEPT !.selIdx = n, !.selItem = st.items[n + 1]]

\* tab_win.cc:119-128, the new selection when the selected index is removed
SelectNext(st, index) ==
  IF Len(st.items) = 1
    THEN [st EXCEPT !.selIdx = 0 - 1, !.selItem = NullItem]
    ELSE LET n == (index + 1) % Len(st.items)
             s1 == [st EXCEPT !.selIdx = n, !.selItem = st.items[n + 1]]
         IN SetSelected(s1, s1.selItem, TRUE)

\* tab_win.cc:114-133; erasing the unique_ptr destroys the item
RemovePageAt(st, index) ==
  IF index < 0 \/ index >= Len(st.items) THEN st
  ELSE LET s1 == IF index = st.selIdx THEN SelectNext(st, index) ELSE st
           gone == st.items[index + 1]
       IN IF s1.crashed THEN s1
          ELSE [s1 EXCEPT !.items = EraseAt(@, index),
                          !.selected[gone] = FALSE,
                          !.state[gone] = "Normal"]

\* tab_win.cc:135-139
SelectItemAt(st, index) ==
  IF index < 0 \/ index >= Len(st.items) THEN st
  ELSE SetSelectedItem(st, st.items[index + 1])

\* The Tab widget keeps one page per tab item, in the same order: it has the
\* page of a new item when TabImpl::AddPage asks for it with PageAt, and it
\* drops the page of a removed index.
AttachPage(st, view) == [st EXCEPT !.pages = Append(@, view)]

DetachPage(st, index) ==
  IF st.crashed \/ index < 0 \/ index >= Len(st.pages) THEN st
  ELSE [st EXCEPT !.pages = EraseAt(@, index)]

\* tab_win.cc:292-298; PageCount() is the number of pages before this one
PlatformAddPage(st, view, addr, title) ==
  LET s1 == IF PageCount(st) > 0 THEN SetVisible(st, view, FALSE) ELSE st
  IN AddPage(AttachPage(s1, view), addr, title)

\* tab_win.cc:300-304
PlatformRemovePage(st, index) ==
  DetachPage(RemovePageAt(st, index), index)

\* a ViewImpl* handed to HasChild: the native view of a page, a tab item, or
\* nullptr
PageChild(view) == [kind |-> "page", id |-> view]

ItemChild(it) == [kind |-> "item", id |-> it]

NullChild == [kind |-> "null", id |-> 0]

Children ==
  {PageChild(v) : v \in Views} \cup {ItemChild(it) : it \in TabItems}

\* tab_win.cc:159-162, TabImpl::GetSelectedPage
GetSelectedPage(st) ==
  LET content == PageAt(st, st.selIdx)
  IN IF content # NullView THEN PageChild(content) ELSE NullChild

\* tab_win.cc:218-224, TabImpl::HasChild
HasChild(st, child) ==
  IF child = GetSelectedPage(st) THEN TRUE
  ELSE child.kind = "item" /\ child.id \in Range(st.items)

\* tab_win.cc:311-314
GetSelectedPageIndex == selected_item_index_

\* selected_item_ points to a destroyed item
Dangling == selected_item_ # NullItem /\ selected_item_ \notin Range(tab_items_)

\* What a write through a pointer to a destroyed item can do in this state.
UafOutcomes == IF Dangling THEN {"silent", "crash"} ELSE {"silent"}

\* The addresses new TabItem can return, up to the names of the addresses
\* nothing points to: the freed address selected_item_ still holds, or
\* another free one.
NewAddresses ==
  LET free == TabItems \ (Range(tab_items_) \cup {selected_item_})
      other == {a \in free : \A b \in free : a <= b}
  IN IF Dangling THEN other \cup {selected_item_} ELSE other

\* The view of the next page, up to the names of the views.
NewView == CHOOSE v \in Views \ Range(pages_) : \A w \in Views \ Range(pages_) : v <= w

\* Tab::AddPage(title, view) with a view that is not a page of the tab and
\* is shown or hidden at that time
TabAddPage(title, shown, addr, uaf) ==
  /\ ~crashed
  /\ Len(tab_items_) < MaxPages
  /\ lastOp' = Op("AddPage", NullMenu, NewView, Len(tab_items_), "none", FALSE)
  /\ LET st == TabState(uaf)
     IN Commit(PlatformAddPage([st EXCEPT !.visible[NewView] = shown],
                               NewView, addr, title))
  /\ returned' = "void"
  /\ index_before' = selected_item_index_
  /\ UNCHANGED menuVars

\* Tab::RemovePage reaching PlatformRemovePage(index, view) with the page of
\* index, and a call with an index that has no page
TabRemovePage(index, uaf) ==
  /\ ~crashed
  /\ lastOp' = Op("RemovePageAt", NullMenu, PageAt(TabState(uaf), index), index,
                  "none", FALSE)
  /\ Commit(PlatformRemovePage(TabState(uaf), index))
  /\ returned' = "void"
  /\ index_before' = selected_item_index_
  /\ UNCHANGED menuVars

\* tab_win.cc:306-309
SelectPageAt(index, uaf) ==
  /\ ~crashed
  /\ lastOp' = Op("SelectPageAt", NullMenu, NullItem, index, "none", FALSE)
  /\ Commit(SelectItemAt(TabState(uaf), index))
  /\ returned' = "void"
  /\ index_before' = selected_item_index_
  /\ UNCHANGED menuVars

\* tab_win.cc:66-72
OnMouseEnter(it) ==
  /\ ~crashed
  /\ it \in Range(tab_items_)
  /\ lastOp' = Op("OnMouseEnter", NullMenu, it, Find(tab_items_, it), "none", FALSE)
  /\ state_' = IF ~selected_[it] THEN [state_ EXCEPT ![it] = "Hovered"] ELSE state_
  /\ emitted' = <<>>
  /\ returned' = "void"
  /\ index_before' = selected_item_index_
  /\ UNCHANGED <<tab_items_, selected_, selected_item_, selected_item_index_,
                 pages_, visible, crashed, title_, size_, font_, tab_font_,
                 scale_factor_>>
  /\ UNCHANGED menuVars

\* tab_win.cc:74-80
OnMouseLeave(it) ==
  /\ ~crashed
  /\ it \in Range(tab_items_)
  /\ lastOp' = Op("OnMouseLeave", NullMenu, it, Find(tab_items_, it), "none", FALSE)
  /\ state_' = IF ~selected_[it] THEN [state_ EXCEPT ![it] = "Normal"] ELSE state_
  /\ emitted' = <<>>
  /\ returned' = "void"
  /\ index_before' = selected_item_index_
  /\ UNCHANGED <<tab_items_, selected_, selected_item_, selected_item_index_,
                 pages_, visible, crashed, title_, size_, font_, tab_font_,
                 scale_factor_>>
  /\ UNCHANGED menuVars

\* tab_win.cc:82-88; base is what ViewImpl::OnMouseClick returns, on_select is
\* the closure of tab_win.cc:107
OnMouseClick(it, type, base, uaf) ==
  /\ ~crashed
  /\ it \in Range(tab_items_)
  /\ lastOp' = Op("OnMouseClick", NullMenu, it, Find(tab_items_, it), type, base)
  /\ LET st == TabState(uaf)
         s1 == IF ~base /\ type = "MouseDown" THEN SetSelectedItem(st, it) ELSE st
     IN /\ Commit(s1)
        /\ returned' = IF s1.crashed THEN "void" ELSE "true"
  /\ index_before' = selected_item_index_
  /\ UNCHANGED menuVars

\* tab_win.cc:227-233; ViewImpl::SetFont stores the font of a view
SetFont(font) ==
  /\ ~crashed
  /\ lastOp' = Op("SetFont", NullMenu, NullItem, font, "none", FALSE)
  /\ tab_font_' = font
  /\ font_' = [a \in TabItems |-> IF a \in Range(tab_items_) THEN font ELSE font_[a]]
  /\ emitted' = <<>>
  /\ returned' = "void"
  /\ index_before' = selected_item_index_
  /\ UNCHANGED <<tab_items_, selected_, state_, selected_item_,
                 selected_item_index_, pages_, visible, crashed, title_, size_,
                 scale_factor_>>
  /\ UNCHANGED menuVars

\* tab_win.cc:261-265; ContainerImpl::OnDPIChanged gives the container and
\* its children the scale factor of the display
OnDPIChanged(scale) ==
  /\ ~crashed
  /\ lastOp' = Op("OnDPIChanged", NullMenu, NullItem, scale, "none", FALSE)
  /\ scale_factor_' = scale
  /\ emitted' = <<>>
  /\ returned' = "void"
  /\ index_before' = selected_item_index_
  /\ UNCHANGED <<tab_items_, selected_, state_, selected_item_,
                 selected_item_index_, pages_, visible, crashed, title_, size_,
                 font_, tab_font_>>
  /\ UNCHANGED menuVars

\* The operations on the selection; the title of a page plays no part in
\* them and every page gets the same one.
TabNext ==
  \/ \E shown \in BOOLEAN, addr \in NewAddresses, uaf \in UafOutcomes :
       TabAddPage(PlainTitle, shown, addr, uaf)
  \/ \E index \in TabIndexes, uaf \in UafOutcomes : TabRemovePage(index, uaf)
  \/ \E index \in TabIndexes, uaf \in UafOutcomes : SelectPageAt(index, uaf)
  \/ \E it \in TabItems : OnMouseEnter(it)
  \/ \E it \in TabItems : OnMouseLeave(it)
  \/ \E it \in TabItems, type \in {"MouseDown", "MouseUp"}, base \in BOOLEAN,
        uaf \in UafOutcomes : OnMouseClick(it, type, base, uaf)

\* The operations that decide the size of the tab items.
MeasureNext ==
  \/ \E title \in Titles, shown \in BOOLEAN, addr \in NewAddresses,
        uaf \in UafOutcomes : TabAddPage(title, shown, addr, uaf)
  \/ \E index \in TabIndexes, uaf \in UafOutcomes : TabRemovePage(index, uaf)
  \/ \E font \in Fonts : SetFont(font)
  \/ \E scale \in ScaleFactors : OnDPIChanged(scale)

TabInit ==
  /\ title_ = [it \in TabItems |-> EmptyTitle]
  /\ size_ = [it \in TabItems |-> EmptySize]
  /\ font_ = [it \in TabItems |-> DefaultFont]
  /\ tab_font_ = DefaultFont
  /\ scale_factor_ = DefaultScale
  /\ index_before = 0 - 1
  /\ tab_items_ = <<>>
  /\ selected_ = [it \in TabItems |-> FALSE]
  /\ state_ = [it \in TabItems |-> "Normal"]
  /\ selected_item_ = NullItem
  /\ selected_item_index_ = 0 - 1
  /\ pages_ = <<>>
  /\ visible = [v \in Views |-> TRUE]
  /\ emitted = <<>>
  /\ returned = "void"
  /\ crashed = FALSE

NoOp == Op("none", NullMenu, NullItem, 0, "none", FALSE)

Init ==
  /\ MenuInit
  /\ TabInit
  /\ lastOp = NoOp

MenuSpec == Init /\ [][MenuNext]_vars

TabSpec == Init /\ [][TabNext]_vars

MeasureSpec == Init /\ [][MeasureNext]_vars

\* ------------------------------------------------------------------------
\* Properties of MenuBase
\* ------------------------------------------------------------------------
\* C1: after every sequence of Insert, Append and Remove calls, accepted or
\* rejected, the item sequence of each menu equals, index for index, the
\* sequence the recording peer has built from the PlatformInsert and
\* PlatformRemove calls it received.
C1_PeerMirrorsItems ==
  \A m \in Menus : items_[m] = peer[m]

C1_Witness ==
  /\ lastOp.op = "Remove"
  /\ Len(platformCalls) = 1
  /\ Len(items_[lastOp.menu]) = 2
  /\ peer[lastOp.menu] = items_[lastOp.menu]

\* C2: Insert(item, index) with a null item, an item that has an owning menu
\* (this one or another), index < 0 or index > count changes nothing: the
\* sequences, every backlink and the peer stay as they were and no
\* PlatformInsert call is made.
C2_RejectedInsertIsNoOp ==
  [][ LET m == lastOp'.menu
          item == lastOp'.item
          index == lastOp'.index
      IN (/\ lastOp'.op = "Insert"
          /\ \/ item = NullItem
             \/ menu_[item] # NullMenu
             \/ index < 0
             \/ index > Len(items_[m]))
         => /\ items_' = items_
            /\ menu_' = menu_
            /\ peer' = peer
            /\ platformCalls' = <<>> ]_vars

C2_Witness ==
  /\ lastOp.op = "Insert"
  /\ lastOp.item # NullItem
  /\ menu_[lastOp.item] \notin {NullMenu, lastOp.menu}
  /\ lastOp.index \in 0..Len(items_[lastOp.menu])
  /\ platformCalls = <<>>

\* the number of positions, over all menus, at which item occurs
Occurrences(item) ==
  Cardinality({<<m, k>> \in Menus \X (1..NumMenuItems) :
                 k <= Len(items_[m]) /\ items_[m][k] = item})

\* C3: each item belongs to zero or one container: it occurs at most once in
\* at most one sequence, its backlink is that container when it occurs in
\* one and null when it occurs in none.
C3_ZeroOrOneContainer ==
  \A item \in MenuItems :
    /\ Occurrences(item) <= 1
    /\ \A m \in Menus : item \in Range(items_[m]) => menu_[item] = m
    /\ (\A m \in Menus : item \notin Range(items_[m])) => menu_[item] = NullMenu

C3_Witness ==
  /\ lastOp.op = "Remove"
  /\ Len(platformCalls) = 1
  /\ menu_[lastOp.item] = NullMenu
  /\ \A m \in Menus : Len(items_[m]) = 1

\* C4: a successful Insert(item, index) puts item at position index, keeps
\* the relative order of the items that were there, sets the backlink of
\* item to this container and then makes exactly one PlatformInsert call
\* with the same item and index; while that call runs the item is already
\* in the sequence at index and its backlink is already set.
C4_InsertThenPlatformInsert ==
  [][ LET m == lastOp'.menu
          item == lastOp'.item
          index == lastOp'.index
      IN (/\ lastOp'.op = "Insert"
          /\ item # NullItem
          /\ menu_[item] = NullMenu
          /\ index >= 0
          /\ index <= Len(items_[m]))
         => /\ Len(items_'[m]) = Len(items_[m]) + 1
            /\ items_'[m][index + 1] = item
            /\ EraseAt(items_'[m], index) = items_[m]
            /\ \A o \in Menus \ {m} : items_'[o] = items_[o]
            /\ menu_' = [menu_ EXCEPT ![item] = m]
            /\ Len(platformCalls') = 1
            /\ platformCalls'[1].fn = "PlatformInsert"
            /\ platformCalls'[1].menu = m
            /\ platformCalls'[1].item = item
            /\ platformCalls'[1].index = index
            /\ platformCalls'[1].seenItems = items_'[m]
            /\ platformCalls'[1].seenMenu = m ]_vars

C4_Witness ==
  /\ lastOp.op = "Insert"
  /\ Len(platformCalls) = 1
  /\ platformCalls[1].fn = "PlatformInsert"
  /\ lastOp.index = 1
  /\ Len(items_[lastOp.menu]) = 3
  /\ items_[lastOp.menu][2] = lastOp.item

\* C5: Remove(item) of an item of the sequence calls PlatformRemove(item)
\* first, while the item is still in the sequence and its backlink is still
\* set; afterwards the backlink is null, the item is not in the sequence,
\* the count is one less and the other items keep their relative order.
C5_PlatformRemoveThenRemove ==
  [][ LET m == lastOp'.menu
          item == lastOp'.item
      IN (/\ lastOp'.op = "Remove"
          /\ item \in Range(items_[m]))
         => /\ Len(platformCalls') = 1
            /\ platformCalls'[1].fn = "PlatformRemove"
            /\ platformCalls'[1].menu = m
            /\ platformCalls'[1].item = item
            /\ platformCalls'[1].seenItems = items_[m]
            /\ platformCalls'[1].seenMenu = m
            /\ menu_' = [menu_ EXCEPT ![item] = NullMenu]
            /\ item \notin Range(items_'[m])
            /\ Len(items_'[m]) = Len(items_[m]) - 1
            /\ \E k \in 0..Len(items_'[m]) : InsertAt(items_'[m], k, item) = items_[m]
            /\ \A o \in Menus \ {m} : items_'[o] = items_[o] ]_vars

C5_Witness ==
  /\ lastOp.op = "Remove"
  /\ Len(platformCalls) = 1
  /\ platformCalls[1].fn = "PlatformRemove"
  /\ Len(platformCalls[1].seenItems) = 3
  /\ platformCalls[1].seenItems[2] = lastOp.item
  /\ Len(items_[lastOp.menu]) = 2

\* C6: Remove(item) of an item that is not in the sequence of this
\* container, an item of another menu included, changes nothing: the
\* sequences, every backlink and the peer stay as they were and no
\* PlatformRemove call is made.
C6_RemoveAbsentIsNoOp ==
  [][ LET m == lastOp'.menu
          item == lastOp'.item
      IN (/\ lastOp'.op = "Remove"
          /\ item \notin Range(items_[m]))
         => /\ items_' = items_
            /\ menu_' = menu_
            /\ peer' = peer
            /\ platformCalls' = <<>> ]_vars

C6_Witness ==
  /\ lastOp.op = "Remove"
  /\ lastOp.item # NullItem
  /\ menu_[lastOp.item] \notin {NullMenu, lastOp.menu}
  /\ lastOp.item \in Range(items_[menu_[lastOp.item]])
  /\ platformCalls = <<>>

\* ------------------------------------------------------------------------
\* Properties of the tab container
\* ------------------------------------------------------------------------
\* C7: after any sequence of AddPage, RemovePageAt, SelectItemAt and pointer
\* events the index GetSelectedPageIndex() returns is -1 exactly when the
\* container has no items, and otherwise 0 <= index < number of items.
C7_SelectedIndexValid ==
  ~crashed =>
    /\ GetSelectedPageIndex = 0 - 1 <=> Len(tab_items_) = 0
    /\ Len(tab_items_) > 0 =>
         GetSelectedPageIndex >= 0 /\ GetSelectedPageIndex < Len(tab_items_)

\* C8: whenever the tab has at least one page, exactly one page is visible,
\* it is the page at the selected index, and all other pages are hidden.
C8_OnlySelectedPageVisible ==
  (~crashed /\ Len(pages_) >= 1) =>
    /\ Cardinality({k \in 1..Len(pages_) : visible[pages_[k]]}) = 1
    /\ \A k \in 1..Len(pages_) :
         visible[pages_[k]] <=> k = GetSelectedPageIndex + 1

\* C9: AddPage on a container with no items, fresh or emptied again by
\* removals, selects the new item: GetSelectedPageIndex() returns 0, the
\* selected flag of the single item is set and one "selected page changed"
\* notification has been emitted.
C9_FirstPageIsSelected ==
  [][ (/\ lastOp'.op = "AddPage"
       /\ Len(tab_items_) = 0
       /\ Len(tab_items_') = 1)
      => /\ ~crashed'
         /\ GetSelectedPageIndex' = 0
         /\ selected_'[tab_items_'[1]]
         /\ Len(emitted') = 1 ]_vars

\* C10: RemovePageAt(0) on a container whose only item is the selected one
\* leaves no items, selected index -1 and selected_item_ null.
C10_RemoveSoleSelected ==
  [][ (/\ lastOp'.op = "RemovePageAt"
       /\ lastOp'.index = 0
       /\ Len(tab_items_) = 1
       /\ selected_item_ = tab_items_[1])
      => /\ ~crashed'
         /\ Len(tab_items_') = 0
         /\ GetSelectedPageIndex' = 0 - 1
         /\ selected_item_' = NullItem ]_vars

\* C11: when the selected page at index i < n - 1 of n >= 2 items is removed
\* with RemovePageAt(i), the item that was at index i + 1 becomes the
\* selected item and GetSelectedPageIndex() returns i, its position after
\* the erase.
C11_RemoveSelectedSelectsNext ==
  [][ LET i == lastOp'.index
          n == Len(tab_items_)
      IN (/\ lastOp'.op = "RemovePageAt"
          /\ n >= 2
          /\ i >= 0
          /\ i < n - 1
          /\ GetSelectedPageIndex = i
          /\ selected_item_ = tab_items_[i + 1])
         => /\ ~crashed'
            /\ Len(tab_items_') = n - 1
            /\ selected_item_' = tab_items_'[i + 1]
            /\ selected_'[tab_items_'[i + 1]]
            /\ GetSelectedPageIndex' = i ]_vars

Selects(i) ==
  /\ i >= 0
  /\ i < Len(tab_items_)
  /\ lastOp'.index = i
  /\ \/ lastOp'.op = "SelectPageAt"
     \/ /\ lastOp'.op = "OnMouseClick"
        /\ lastOp'.type = "MouseDown"
        /\ ~lastOp'.base

\* C13: selecting item i, by SelectItemAt(i) with 0 <= i < count or by a
\* pointer-down on tab item i (which returns "handled"), ends with the flag
\* of item i set, the previously selected item, if different, deselected and
\* its page hidden, the selected index equal to i and page i visible.
C13_SelectingItem ==
  [][ \A i \in 0..(MaxPages - 1) :
        Selects(i) =>
          LET item == tab_items_[i + 1]
              prev == selected_item_
          IN /\ ~crashed'
             /\ tab_items_' = tab_items_
             /\ selected_'[item]
             /\ selected_item_' = item
             /\ (prev \in Range(tab_items_) /\ prev # item) =>
                  /\ ~selected_'[prev]
                  /\ ~visible'[pages_'[Find(tab_items_, prev) + 1]]
             /\ GetSelectedPageIndex' = i
             /\ visible'[pages_'[i + 1]]
             /\ lastOp'.op = "OnMouseClick" => returned' = "true" ]_vars

\* C14: every call of SetSelectedItem emits exactly one "selected page
\* changed" notification, also when the item is already the selected one:
\* then the selected index, the selected flags and the visibility of the
\* pages stay as they were.
C14_EverySelectEmitsOnce ==
  [][ \A i \in 0..(MaxPages - 1) :
        Selects(i) =>
          /\ ~crashed'
          /\ Len(emitted') = 1
          /\ selected_item_ = tab_items_[i + 1] =>
               /\ GetSelectedPageIndex' = GetSelectedPageIndex
               /\ selected_item_' = selected_item_
               /\ selected_' = selected_
               /\ visible' = visible ]_vars

\* C15: for every tab item of the container the selected flag and the visual
\* state are in lock-step: the item is selected exactly when its state is
\* Pressed, an unselected item is Normal or Hovered, and a selected item is
\* never Hovered.
C15_FlagAndStateInLockStep ==
  \A it \in Range(tab_items_) :
     /\ selected_[it] <=> state_[it] = "Pressed"
     /\ ~selected_[it] => state_[it] \in {"Normal", "Hovered"}
     /\ selected_[it] => state_[it] # "Hovered"

\* a selected Pressed item next to a pointed-at, unselected Hovered one
C15_Witness ==
  /\ ~crashed
  /\ lastOp.op = "OnMouseEnter"
  /\ \E a \in Range(tab_items_), b \in Range(tab_items_) :
        /\ selected_[a] /\ state_[a] = "Pressed"
        /\ ~selected_[b] /\ state_[b] = "Hovered"

\* the page of the selected item, when that page is the one shown
IsVisibleSelectedPage(view) ==
  \E p \in 1..Len(tab_items_) :
     /\ tab_items_[p] = selected_item_
     /\ pages_[p] = view
     /\ visible[view]

\* C16: HasChild(v) is true when v is the currently visible, selected page
\* or one of the container's tab items, and false for every other view:
\* pages that are not selected and views that are not in the container.
C16_HasChild ==
  ~crashed =>
    \A child \in Children :
       HasChild(TabState("silent"), child) <=>
         IF child.kind = "page" THEN IsVisibleSelectedPage(child.id)
         ELSE child.id \in Range(tab_items_)

\* C17: the cached size of every tab item is the size derived from its
\* current title, its current font and the current display scale factor
\* (ceiled text extent plus twice the horizontal and vertical padding times
\* the scale factor): SetTitle, SetFont and a change of the display scale
\* all leave it up to date.
C17_SizeIsNeverStale ==
  \A it \in Range(tab_items_) :
     size_[it] = MeasuredSize(title_[it], font_[it], scale_factor_)

\* C18: RemovePageAt(i) with i valid and different from the selected index
\* keeps the same item selected, and GetSelectedPageIndex() afterwards is
\* the position of that item among the remaining ones: unchanged when i was
\* after the selected item, one less when i was before it.
C18_RemoveOtherKeepsSelection ==
  [][ LET n == Len(tab_items_)
          i == lastOp'.index
          p == Find(tab_items_, selected_item_)
          q == IF i < p THEN p - 1 ELSE p
      IN (/\ lastOp'.op = "RemovePageAt"
          /\ i >= 0 /\ i < n
          /\ p < n /\ GetSelectedPageIndex = p /\ selected_[selected_item_]
          /\ i # p)
         => /\ ~crashed'
            /\ Len(tab_items_') = n - 1
            /\ Find(tab_items_', selected_item_') = q
            /\ selected_'[selected_item_']
            /\ GetSelectedPageIndex' = q ]_vars

\* C19: the selection bookkeeping is coherent after any sequence of AddPage,
\* RemovePageAt and SelectItemAt: selected_item_ is null when the container
\* is empty and otherwise an item still in items_, that item sits at
\* position selected_item_index_, and it is the one and only item whose
\* selected flag is set.
C19_BookkeepingCoherent ==
  ~crashed =>
    IF tab_items_ = <<>>
      THEN selected_item_ = NullItem
      ELSE /\ selected_item_ \in Range(tab_items_)
           /\ Find(tab_items_, selected_item_) = selected_item_index_
           /\ \A it \in Range(tab_items_) :
                 selected_[it] <=> it = selected_item_

\* C20: an operation that changes which page is selected (the value of
\* GetSelectedPageIndex(), or a selection appearing or going away) emits a
\* "selected page changed" notification, and when the last one is emitted
\* the selected index already has the value it keeps; RemovePageAt of the
\* selected page is such an operation.
C20_SelectionChangeIsNotified ==
  [][ (\/ GetSelectedPageIndex' # GetSelectedPageIndex
       \/ (selected_item_' = NullItem) # (selected_item_ = NullItem))
      => /\ ~crashed'
         /\ Len(emitted') >= 1
         /\ emitted'[Len(emitted')].index = GetSelectedPageIndex' ]_vars

====
